---- MODULE Spec2Model ----
(***************************************************************************)
(* Model of Doc/Matrix_project/analyze_profile.py: the ProfileAnalyzer     *)
(* class (load, analyse, three renderers) and the main() driver.           *)
(*                                                                         *)
(* Latencies are finite numbers counted in tenths of a millisecond         *)
(* (2.3 ms is 23); throughput is counted in thousandths of a GFLOP,        *)
(* rounded down.  Python's None is the empty tuple, a present value x is   *)
(* <<x>>.  An ordered dict is a sequence of [impl, m] items with distinct  *)
(* keys, in insertion order.  A file's content is reduced to its           *)
(* data-driven parts; the fixed prose and the timestamps are left out.     *)
(* stdout is the set of lines printed so far.                              *)
(***************************************************************************)
EXTENDS Integers, Sequences, FiniteSets, TLC

\* ---------------------------------------------------------------- bounds
MaxRows == 2

\* ------------------------------------------------------ program constants
TARGET_MS == 50
N == 341

None == <<>>
Some(x) == <<x>>

\* ------------------------------------------------------------ input space
Names == {"RocSOLVER", "Hybrid"}
MinMaxVals == {<<15, 18>>, <<21, 24>>}
AvgVals == {16, 23, 50}
Rows == {[Implementation |-> n, Min_ms |-> mm[1], Max_ms |-> mm[2], Avg_ms |-> a] :
            n \in Names, mm \in MinMaxVals, a \in AvgVals}
Tables == UNION {[1..k -> Rows] : k \in 0..MaxRows}
\* the tables a direct caller of the class is run on: one min/max pair
ApiTables == {t \in Tables : \A i \in 1..Len(t) : t[i].Min_ms = 15}

CsvPath == "results.csv"
RocprofPath == "rocprof.csv"
MD == "profiling_report.md"
JSON == "profiling_data.json"

ArgSpace == [markdown : BOOLEAN, json : BOOLEAN,
             rocprof : {None, Some(RocprofPath)},
             output : {None, Some("out")}]

VARIABLES
    args,            \* parsed command line
    fs_csv,          \* primary table on disk: None or Some(table)
    fs_rocprof,      \* TRUE iff the secondary table exists on disk
    dirs,            \* existing directories
    files,           \* output files: name -> [state, best, impls]
    handles,         \* output file handles currently open
    results_df,      \* self.results_df: None or Some(table)
    profiling_data,  \* self.profiling_data: ordered dict
    stdout,          \* lines printed
    pc,              \* position of the running code
    exc,             \* exception in flight: None or Some(kind)
    exit_code,       \* process status: None while running
    called,          \* methods main has invoked
    minlog           \* evaluations of min(): <<caller, number of items>>

vars == <<args, fs_csv, fs_rocprof, dirs, files, handles, results_df,
          profiling_data, stdout, pc, exc, exit_code, called, minlog>>

env == <<args, fs_csv, fs_rocprof>>

\* ------------------------------------------------------------ pure helpers

RECURSIVE Unique(_)
\* Series.unique(): the distinct values in order of first appearance
Unique(s) ==
    IF s = <<>> THEN <<>>
    ELSE LET front == Unique(SubSeq(s, 1, Len(s) - 1))
             last == s[Len(s)]
         IN IF \E i \in 1..Len(front) : front[i] = last
            THEN front
            ELSE Append(front, last)

\* df['Implementation']
ImplColumn(df) == [i \in 1..Len(df) |-> df[i].Implementation]

\* df[df['Implementation'] == impl]: the matching rows, in table order
SelectRows(df, impl) == SelectSeq(df, LAMBDA r : r.Implementation = impl)

LastRow(impl_data) == impl_data[Len(impl_data)]
\* impl_data[col].values[0]: the first matching row supplies every column
FirstRow(impl_data) == impl_data[1]

TargetMet_Inclusive(avg_ms) == avg_ms <= TARGET_MS
\* float(avg) < 5.0
TargetMet(avg_ms) == avg_ms < TARGET_MS

\* (4 * 341**3 / 3) / (avg * 1e-3) / 1e9 GFLOPs, in thousandths of a GFLOP:
\* avg is avg_ms/10 ms, so the value is 4*N^3 / (3 * avg_ms * 100) * 1000 / 1000
Flops(avg_ms) == (4 * N * N * N) \div (3 * avg_ms * 100)

Metrics(row) ==
    [min_ms |-> row.Min_ms, max_ms |-> row.Max_ms, avg_ms |-> row.Avg_ms,
     target_met |-> TargetMet(row.Avg_ms), flops |-> Flops(row.Avg_ms)]

\* d[k] = v on an ordered dict: overwrite in place, or insert at the end
DictSet(d, k, v) ==
    IF \E i \in 1..Len(d) : d[i].impl = k
    THEN [i \in 1..Len(d) |-> IF d[i].impl = k THEN [impl |-> k, m |-> v] ELSE d[i]]
    ELSE Append(d, [impl |-> k, m |-> v])

RECURSIVE AnalysisLoop(_, _, _)
\* the for loop of analyze_performance over the unique names
AnalysisLoop(df, impls, analysis) ==
    IF impls = <<>> THEN analysis
    ELSE LET impl == Head(impls)
             impl_data == SelectRows(df, impl)
         IN AnalysisLoop(df, Tail(impls),
                         DictSet(analysis, impl, Metrics(FirstRow(impl_data))))

Analysis(df) == AnalysisLoop(df, Unique(ImplColumn(df)), <<>>)

RECURSIVE MinScan(_, _, _)
\* min(iterable, key=...): keep the current item unless a later key is
\* strictly smaller
MinScan(items, i, best) ==
    IF i > Len(items) THEN best
    ELSE MinScan(items, i + 1,
                 IF items[i].m.avg_ms < best.m.avg_ms THEN items[i] ELSE best)

RECURSIVE LastMinScan(_, _, _)
LastMinScan(items, i, best) ==
    IF i > Len(items) THEN best
    ELSE LastMinScan(items, i + 1,
                     IF items[i].m.avg_ms <= best.m.avg_ms THEN items[i] ELSE best)

BestImpl_LastMin(items) == LastMinScan(items, 2, items[1])
\* min(self.profiling_data.items(), key=lambda x: x[1]['avg_ms']), items non-empty
BestImpl(items) == MinScan(items, 2, items[1])

\* ------------------------------------------------------------------ lines
LoadedLine(path) == [line |-> "Loaded", path |-> path]
NotFoundLine(path) == [line |-> "File not found", path |-> path]
NoResultsLine == [line |-> "No results loaded", path |-> ""]
GeneratedLine(path) == [line |-> "Report generated", path |-> path]
BannerLine == [line |-> "PROFILING SUMMARY", path |-> ""]
NoDataLine == [line |-> "No profiling data available", path |-> ""]
ImplLine(item) == [line |-> "impl", item |-> item]
BestLine(item) == [line |-> "Best Implementation", item |-> item]

\* ------------------------------------------------------------------ files
AbsentFile == [state |-> "absent", best |-> None, impls |-> <<>>]
\* open(path, 'w') creates or truncates; a write that stops partway leaves this
PartialFile == [state |-> "partial", best |-> None, impls |-> <<>>]

\* ------------------------------------------------- ProfileAnalyzer methods

\* load_results(): what it returns
LoadResultsReturn == fs_csv # None

\* load_results(): read the table, or report that it is missing
LoadResults ==
    IF fs_csv # None
    THEN /\ results_df' = fs_csv
         /\ stdout' = stdout \cup {LoadedLine(CsvPath)}
    ELSE /\ results_df' = results_df
         /\ stdout' = stdout \cup {NotFoundLine(CsvPath)}

\* load_rocprof_results(rocprof_csv): the table is returned, nothing is stored
LoadRocprofResults(rocprof_csv) ==
    stdout' = stdout \cup {IF fs_rocprof THEN LoadedLine(rocprof_csv)
                                         ELSE NotFoundLine(rocprof_csv)}

\* analyze_performance()
AnalyzePerformance ==
    IF results_df = None
    THEN /\ stdout' = stdout \cup {NoResultsLine}
         /\ profiling_data' = profiling_data
    ELSE /\ profiling_data' = Analysis(results_df[1])
         /\ stdout' = stdout

ItemLines(items) == {ImplLine(items[i]) : i \in 1..Len(items)}

PrintSummary_NoGuard ==
    IF profiling_data = <<>>
    THEN /\ stdout' = stdout \cup {BannerLine}
         /\ minlog' = minlog \cup {<<"print_summary", 0>>}
         /\ exc' = Some("ValueError")
    ELSE /\ stdout' = stdout \cup {BannerLine} \cup ItemLines(profiling_data)
                          \cup {BestLine(BestImpl(profiling_data))}
         /\ minlog' = minlog \cup {<<"print_summary", Len(profiling_data)>>}
         /\ exc' = exc

\* print_summary()
PrintSummary ==
    IF profiling_data = <<>>
    THEN /\ stdout' = stdout \cup {BannerLine, NoDataLine}
         /\ minlog' = minlog
         /\ exc' = exc
    ELSE /\ stdout' = stdout \cup {BannerLine} \cup ItemLines(profiling_data)
                          \cup {BestLine(BestImpl(profiling_data))}
         /\ minlog' = minlog \cup {<<"print_summary", Len(profiling_data)>>}
         /\ exc' = exc

\* ---- generate_markdown_report(output_file), one step per stage of the with

\* open(output_file, 'w')
MdOpen ==
    /\ pc = "md_open"
    /\ \E ok \in BOOLEAN :
          IF ok
          THEN /\ handles' = handles \cup {MD}
               /\ files' = [files EXCEPT ![MD] = PartialFile]
               /\ pc' = "md_write"
               /\ exc' = exc
          ELSE /\ exc' = Some("OSError")
               /\ pc' = "raise"
               /\ UNCHANGED <<handles, files>>
    /\ UNCHANGED <<env, dirs, results_df, profiling_data, stdout, exit_code,
                   called, minlog>>

MdWrite_Reorders ==
    /\ pc = "md_write"
    /\ pc' = "md_close"
    /\ exc' = exc
    /\ IF profiling_data # <<>>
       THEN LET best == BestImpl(profiling_data)
            IN /\ minlog' = minlog \cup {<<"generate_markdown_report", Len(profiling_data)>>}
               /\ profiling_data' =
                     <<best>> \o SelectSeq(profiling_data, LAMBDA it : it # best)
               /\ files' = [files EXCEPT ![MD] =
                     [state |-> "partial", best |-> Some(best),
                      impls |-> profiling_data']]
       ELSE /\ files' = [files EXCEPT ![MD] = PartialFile]
            /\ UNCHANGED <<minlog, profiling_data>>
    /\ UNCHANGED <<env, dirs, handles, results_df, stdout, exit_code, called>>

\* the body of the with: the f.write calls, any of which may fail
MdWrite ==
    /\ pc = "md_write"
    /\ pc' = "md_close"
    /\ \E outcome \in {"ok", "fail_head", "fail_data"} :
          /\ exc' = IF outcome = "ok" THEN exc ELSE Some("OSError")
          /\ IF profiling_data # <<>> /\ outcome # "fail_head"
             THEN LET best == BestImpl(profiling_data)
                  IN /\ minlog' = minlog \cup
                          {<<"generate_markdown_report", Len(profiling_data)>>}
                     /\ files' = [files EXCEPT ![MD] =
                          IF outcome = "ok"
                          THEN [state |-> "partial", best |-> Some(best),
                                impls |-> profiling_data]
                          ELSE PartialFile]
             ELSE /\ minlog' = minlog
                  /\ files' = [files EXCEPT ![MD] = PartialFile]
    /\ UNCHANGED <<env, dirs, handles, results_df, profiling_data, stdout,
                   exit_code, called>>

MdClose_Leak ==
    /\ pc = "md_close"
    /\ IF exc = None
       THEN /\ handles' = handles \ {MD}
            /\ files' = [files EXCEPT ![MD].state = "complete"]
            /\ stdout' = stdout \cup {GeneratedLine(MD)}
            /\ pc' = "md_ret"
       ELSE /\ pc' = "raise"
            /\ UNCHANGED <<handles, files, stdout>>
    /\ UNCHANGED <<env, dirs, results_df, profiling_data, exc, exit_code,
                   called, minlog>>

\* leaving the with (the handle is released either way), then the print
MdClose ==
    /\ pc = "md_close"
    /\ handles' = handles \ {MD}
    /\ IF exc = None
       THEN /\ files' = [files EXCEPT ![MD].state = "complete"]
            /\ stdout' = stdout \cup {GeneratedLine(MD)}
            /\ pc' = "md_ret"
       ELSE /\ pc' = "raise"
            /\ UNCHANGED <<files, stdout>>
    /\ UNCHANGED <<env, dirs, results_df, profiling_data, exc, exit_code,
                   called, minlog>>

\* ---- generate_json_report(output_file)

\* data = {...} is built from fields only, then open(output_file, 'w')
JsonOpen ==
    /\ pc = "json_open"
    /\ \E ok \in BOOLEAN :
          IF ok
          THEN /\ handles' = handles \cup {JSON}
               /\ files' = [files EXCEPT ![JSON] = PartialFile]
               /\ pc' = "json_write"
               /\ exc' = exc
          ELSE /\ exc' = Some("OSError")
               /\ pc' = "raise"
               /\ UNCHANGED <<handles, files>>
    /\ UNCHANGED <<env, dirs, results_df, profiling_data, stdout, exit_code,
                   called, minlog>>

\* json.dump(data, f, indent=2), which may fail partway
JsonWrite ==
    /\ pc = "json_write"
    /\ pc' = "json_close"
    /\ \E ok \in BOOLEAN :
          /\ exc' = IF ok THEN exc ELSE Some("OSError")
          /\ files' = [files EXCEPT ![JSON] =
                IF ok THEN [state |-> "partial", best |-> None,
                            impls |-> profiling_data]
                      ELSE PartialFile]
    /\ UNCHANGED <<env, dirs, handles, results_df, profiling_data, stdout,
                   exit_code, called, minlog>>

\* leaving the with, then the print
JsonClose ==
    /\ pc = "json_close"
    /\ handles' = handles \ {JSON}
    /\ IF exc = None
       THEN /\ files' = [files EXCEPT ![JSON].state = "complete"]
            /\ stdout' = stdout \cup {GeneratedLine(JSON)}
            /\ pc' = "json_ret"
       ELSE /\ pc' = "raise"
            /\ UNCHANGED <<files, stdout>>
    /\ UNCHANGED <<env, dirs, results_df, profiling_data, exc, exit_code,
                   called, minlog>>

\* -------------------------------------------------------------- main()

\* output_dir = args.output if args.output else '.'
OutputDir == IF args.output # None THEN args.output[1] ELSE "."

MdCondition_IgnoresRocprof(a) == a.markdown \/ ~a.json
\* args.markdown or (not args.json and not args.rocprof)
MdCondition(a) == a.markdown \/ (~a.json /\ a.rocprof = None)

\* args.json or (not args.markdown and not args.rocprof)
JsonCondition(a) == a.json \/ (~a.markdown /\ a.rocprof = None)

\* create the output directory when it is named and missing
MainMkdir ==
    /\ pc = "start"
    /\ dirs' = IF OutputDir # "." /\ OutputDir \notin dirs
               THEN dirs \cup {OutputDir} ELSE dirs
    /\ pc' = "load"
    /\ UNCHANGED <<env, files, handles, results_df, profiling_data, stdout,
                   exc, exit_code, called, minlog>>

MainLoad_IgnoresResult ==
    /\ pc = "load"
    /\ LoadResults
    /\ called' = called \cup {"load_results"}
    /\ pc' = "analyze"
    /\ exit_code' = exit_code
    /\ UNCHANGED <<env, dirs, files, handles, profiling_data, exc, minlog>>

\* if not analyzer.load_results(): sys.exit(1)
MainLoad ==
    /\ pc = "load"
    /\ LoadResults
    /\ called' = called \cup {"load_results"}
    /\ IF LoadResultsReturn
       THEN pc' = "analyze" /\ exit_code' = exit_code
       ELSE pc' = "done" /\ exit_code' = Some(1)
    /\ UNCHANGED <<env, dirs, files, handles, profiling_data, exc, minlog>>

MainAnalyze ==
    /\ pc = "analyze"
    /\ AnalyzePerformance
    /\ called' = called \cup {"analyze_performance"}
    /\ pc' = "reports"
    /\ UNCHANGED <<env, dirs, files, handles, results_df, exc, exit_code, minlog>>

MainCallMd ==
    /\ pc = "reports"
    /\ MdCondition(args)
    /\ called' = called \cup {"generate_markdown_report"}
    /\ pc' = "md_open"
    /\ UNCHANGED <<env, dirs, files, handles, results_df, profiling_data,
                   stdout, exc, exit_code, minlog>>

MainSkipMd ==
    /\ pc = "reports"
    /\ ~MdCondition(args)
    /\ pc' = "md_ret"
    /\ UNCHANGED <<env, dirs, files, handles, results_df, profiling_data,
                   stdout, exc, exit_code, called, minlog>>

MainCallJson ==
    /\ pc = "md_ret"
    /\ JsonCondition(args)
    /\ called' = called \cup {"generate_json_report"}
    /\ pc' = "json_open"
    /\ UNCHANGED <<env, dirs, files, handles, results_df, profiling_data,
                   stdout, exc, exit_code, minlog>>

MainSkipJson ==
    /\ pc = "md_ret"
    /\ ~JsonCondition(args)
    /\ pc' = "json_ret"
    /\ UNCHANGED <<env, dirs, files, handles, results_df, profiling_data,
                   stdout, exc, exit_code, called, minlog>>

\* analyzer.print_summary(), then main returns
MainSummary ==
    /\ pc = "json_ret"
    /\ PrintSummary
    /\ called' = called \cup {"print_summary"}
    /\ IF exc' = None
       THEN pc' = "done" /\ exit_code' = Some(0)
       ELSE pc' = "raise" /\ exit_code' = exit_code
    /\ UNCHANGED <<env, dirs, files, handles, results_df, profiling_data>>

\* an exception nobody catches ends the process with a traceback
MainUncaught ==
    /\ pc = "raise"
    /\ pc' = "done"
    /\ exit_code' = Some(1)
    /\ UNCHANGED <<env, dirs, files, handles, results_df, profiling_data,
                   stdout, exc, called, minlog>>

Init ==
    /\ args \in ArgSpace
    /\ fs_csv \in {None} \cup {Some(t) : t \in Tables}
    /\ fs_rocprof \in BOOLEAN
    /\ dirs \in {{"."}, {".", "out"}}
    /\ files = [f \in {MD, JSON} |-> AbsentFile]
    /\ handles = {}
    /\ results_df = None
    /\ profiling_data = <<>>
    /\ stdout = {}
    /\ pc = "start"
    /\ exc = None
    /\ exit_code = None
    /\ called = {}
    /\ minlog = {}

Next ==
    \/ MainMkdir
    \/ MainLoad
    \/ MainAnalyze
    \/ MainCallMd
    \/ MainSkipMd
    \/ MdOpen
    \/ MdWrite
    \/ MdClose
    \/ MainCallJson
    \/ MainSkipJson
    \/ JsonOpen
    \/ JsonWrite
    \/ JsonClose
    \/ MainSummary
    \/ MainUncaught

Spec == Init /\ [][Next]_vars

\* ------------------------------------ the class used directly by a caller

ApiLoadResults ==
    /\ pc = "idle"
    /\ LoadResults
    /\ UNCHANGED <<env, dirs, files, handles, profiling_data, pc, exc,
                   exit_code, called, minlog>>

ApiLoadRocprofResults ==
    /\ pc = "idle"
    /\ LoadRocprofResults(RocprofPath)
    /\ UNCHANGED <<env, dirs, files, handles, results_df, profiling_data, pc,
                   exc, exit_code, called, minlog>>

ApiAnalyze ==
    /\ pc = "idle"
    /\ AnalyzePerformance
    /\ UNCHANGED <<env, dirs, files, handles, results_df, pc, exc, exit_code,
                   called, minlog>>

ApiCallMd ==
    /\ pc = "idle"
    /\ pc' = "md_open"
    /\ UNCHANGED <<env, dirs, files, handles, results_df, profiling_data,
                   stdout, exc, exit_code, called, minlog>>

ApiCallJson ==
    /\ pc = "idle"
    /\ pc' = "json_open"
    /\ UNCHANGED <<env, dirs, files, handles, results_df, profiling_data,
                   stdout, exc, exit_code, called, minlog>>

ApiSummary ==
    /\ pc = "idle"
    /\ PrintSummary
    /\ pc' = IF exc' = None THEN "idle" ELSE "raise"
    /\ UNCHANGED <<env, dirs, files, handles, results_df, profiling_data,
                   exit_code, called>>

\* a renderer returns to its caller
ApiReturn ==
    /\ pc \in {"md_ret", "json_ret"}
    /\ pc' = "idle"
    /\ UNCHANGED <<env, dirs, files, handles, results_df, profiling_data,
                   stdout, exc, exit_code, called, minlog>>

\* the caller handles the exception and goes on
ApiCatch ==
    /\ pc = "raise"
    /\ pc' = "idle"
    /\ exc' = None
    /\ UNCHANGED <<env, dirs, files, handles, results_df, profiling_data,
                   stdout, exit_code, called, minlog>>

InitApi ==
    /\ args = [markdown |-> FALSE, json |-> FALSE, rocprof |-> None, output |-> None]
    /\ fs_csv \in {None} \cup {Some(t) : t \in ApiTables}
    /\ fs_rocprof \in BOOLEAN
    /\ dirs = {"."}
    /\ files = [f \in {MD, JSON} |-> AbsentFile]
    /\ handles = {}
    /\ results_df = None
    /\ profiling_data = <<>>
    /\ stdout = {}
    /\ pc = "idle"
    /\ exc = None
    /\ exit_code = None
    /\ called = {}
    /\ minlog = {}

NextApi ==
    \/ ApiLoadResults
    \/ ApiLoadRocprofResults
    \/ ApiAnalyze
    \/ ApiCallMd
    \/ ApiCallJson
    \/ ApiSummary
    \/ ApiReturn
    \/ ApiCatch
    \/ MdOpen
    \/ MdWrite
    \/ MdClose
    \/ JsonOpen
    \/ JsonWrite
    \/ JsonClose

SpecApi == InitApi /\ [][NextApi]_vars

\* ----------------------------------------------------------------- claims

MdCalled == "generate_markdown_report" \in called
JsonCalled == "generate_json_report" \in called
SummaryCalled == "print_summary" \in called
Analyzed == "analyze_performance" \in called

\* it is the first item, in insertion order, whose avg_ms is the least
IsFirstMinimum(items, it) ==
    \E i \in 1..Len(items) :
        /\ items[i] = it
        /\ \A j \in 1..Len(items) : it.m.avg_ms <= items[j].m.avg_ms
        /\ \A j \in 1..(i - 1) : it.m.avg_ms < items[j].m.avg_ms

\* C1: on a non-empty profiling_data the best implementation written by the
\* markdown renderer and printed by the console summary has the least avg_ms
\* of all entries, and among entries sharing that least value it is the one
\* inserted first.
C1_BestIsFirstMinimum ==
    /\ files[MD].best # None => IsFirstMinimum(profiling_data, files[MD].best[1])
    /\ \A l \in stdout :
          l.line = "Best Implementation" => IsFirstMinimum(profiling_data, l.item)
    /\ (files[MD].state = "complete" /\ profiling_data # <<>>) => files[MD].best # None
    /\ (SummaryCalled /\ profiling_data # <<>>) =>
          \E l \in stdout : l.line = "Best Implementation"

C1_Witness ==
    /\ pc = "done"
    /\ Len(profiling_data) = 2
    /\ profiling_data[1].m.avg_ms = profiling_data[2].m.avg_ms
    /\ files[MD].state = "complete"
    /\ files[MD].best = Some(profiling_data[1])
    /\ BestLine(profiling_data[1]) \in stdout

\* C2: every entry's target_met is true exactly when its avg_ms is strictly
\* below the 5.0 ms target; an avg_ms of exactly 5.0 ms gives false.
C2_TargetMetStrict ==
    \A i \in 1..Len(profiling_data) :
        LET m == profiling_data[i].m
        IN /\ m.target_met = (m.avg_ms < 50)
           /\ m.avg_ms = 50 => ~m.target_met

C2_Witness ==
    /\ Analyzed
    /\ \E i, j \in 1..Len(profiling_data) :
          /\ profiling_data[i].m.avg_ms = 50
          /\ ~profiling_data[i].m.target_met
          /\ profiling_data[j].m.avg_ms = 23
          /\ profiling_data[j].m.target_met

ReferenceTable ==
    << [Implementation |-> "RocSOLVER", Min_ms |-> 21, Max_ms |-> 24, Avg_ms |-> 23],
       [Implementation |-> "Hybrid", Min_ms |-> 15, Max_ms |-> 18, Avg_ms |-> 16] >>

\* C3: for the reference rows RocSOLVER (2.1, 2.4, 2.3) and Hybrid
\* (1.5, 1.8, 1.6) the throughput recorded for Hybrid is within 1% of
\* 98.0 GFLOPs (98000 thousandths, give or take 980).
C3_HybridThroughputNear98 ==
    (results_df = Some(ReferenceTable) /\ Analyzed) =>
        \E i \in 1..Len(profiling_data) :
            /\ profiling_data[i].impl = "Hybrid"
            /\ profiling_data[i].m.flops >= 98000 - 980
            /\ profiling_data[i].m.flops <= 98000 + 980

\* C4: a name that occurs in several rows of the table gets exactly one
\* entry, and the entry's min_ms, max_ms, avg_ms and the values derived from
\* avg_ms are those of the first such row in table order.
C4_FirstOccurrenceWins ==
    (results_df # None /\ Analyzed) =>
        LET df == results_df[1]
        IN \A n \in Names :
              LET rows == {i \in 1..Len(df) : df[i].Implementation = n}
                  entries == {j \in 1..Len(profiling_data) : profiling_data[j].impl = n}
              IN IF rows = {} THEN entries = {}
                 ELSE /\ Cardinality(entries) = 1
                      /\ \A j \in entries :
                            LET first == df[CHOOSE i \in rows : \A k \in rows : i <= k]
                                m == profiling_data[j].m
                            IN /\ m.min_ms = first.Min_ms
                               /\ m.max_ms = first.Max_ms
                               /\ m.avg_ms = first.Avg_ms
                               /\ m.target_met = (first.Avg_ms < 50)
                               /\ m.flops = (4 * 341 * 341 * 341) \div (300 * first.Avg_ms)

C4_Witness ==
    /\ Analyzed
    /\ results_df # None
    /\ Len(results_df[1]) = 2
    /\ results_df[1][1].Implementation = results_df[1][2].Implementation
    /\ results_df[1][1].Min_ms # results_df[1][2].Min_ms
    /\ results_df[1][1].Max_ms # results_df[1][2].Max_ms
    /\ results_df[1][1].Avg_ms # results_df[1][2].Avg_ms
    /\ Len(profiling_data) = 1
    /\ profiling_data[1].m.avg_ms = results_df[1][1].Avg_ms

\* C5: on a table with a header and no rows the analysis is empty, no
\* renderer raises over it (an I/O failure of the sink aside), min() is never
\* evaluated over zero entries, and the console summary prints the no-data
\* line, prints no best implementation and returns normally.
C5_EmptyInputIsGraceful ==
    results_df = Some(<<>>) =>
        /\ profiling_data = <<>>
        /\ exc # Some("ValueError")
        /\ \A e \in minlog : e[2] > 0
        /\ SummaryCalled =>
              /\ NoDataLine \in stdout
              /\ \A l \in stdout : l.line # "Best Implementation"
              /\ pc = "done"
              /\ exit_code = Some(0)

C5_Witness ==
    /\ results_df = Some(<<>>)
    /\ pc = "done"
    /\ exit_code = Some(0)
    /\ MdCalled /\ JsonCalled /\ SummaryCalled
    /\ files[MD].state = "complete"
    /\ files[JSON].state = "complete"
    /\ NoDataLine \in stdout

\* C6: when load_results returns False the process exits with a non-zero
\* status and neither the analysis nor any renderer nor the summary runs,
\* whatever the flags.
C6_LoadFailureIsFatal ==
    ("load_results" \in called /\ results_df = None) =>
        /\ called = {"load_results"}
        /\ pc = "done"
        /\ exit_code = Some(1)
        /\ \A f \in {MD, JSON} : files[f].state = "absent"

C6_Witness ==
    /\ "load_results" \in called
    /\ results_df = None
    /\ exit_code = Some(1)
    /\ args.markdown /\ args.json /\ args.rocprof # None /\ args.output # None

C8_SecondaryMissingIsLogged ==
    (pc = "done" /\ results_df # None /\ exc = None
        /\ args.rocprof # None /\ ~fs_rocprof) =>
        /\ NotFoundLine(RocprofPath) \in stdout
        /\ exit_code = Some(0)

\* C9: an output file handle is open only inside the with block that opened
\* it, also when the block is left by an exception; once the JSON renderer
\* has started, whatever happens to it, the markdown renderer's file is
\* closed and complete.
C9_SinksAreScoped ==
    /\ MD \in handles => pc \in {"md_write", "md_close"}
    /\ JSON \in handles => pc \in {"json_write", "json_close"}
    /\ pc = "done" => handles = {}
    /\ (JsonCalled /\ MdCalled) =>
          /\ MD \notin handles
          /\ files[MD].state = "complete"

C9_Witness ==
    /\ pc = "done"
    /\ exc = Some("OSError")
    /\ MdCalled /\ JsonCalled
    /\ files[MD].state = "complete"
    /\ files[JSON].state = "partial"
    /\ handles = {}

RendererStep ==
    \/ ApiCallMd \/ MdOpen \/ MdWrite \/ MdClose
    \/ ApiCallJson \/ JsonOpen \/ JsonWrite \/ JsonClose
    \/ ApiSummary \/ ApiReturn \/ ApiCatch

\* C10: no step of the markdown renderer, the JSON renderer or the console
\* summary, called in any order and any number of times, changes
\* profiling_data or results_df.
C10_RenderersDoNotMutate ==
    [][RendererStep => UNCHANGED <<profiling_data, results_df>>]_vars

C10_Witness ==
    /\ pc = "idle"
    /\ Len(profiling_data) = 2
    /\ profiling_data[2].m.avg_ms < profiling_data[1].m.avg_ms
    /\ results_df # None
    /\ profiling_data = Analysis(results_df[1])
    /\ files[MD].state = "complete"
    /\ files[MD].best = Some(profiling_data[2])
    /\ files[JSON].state = "complete"
    /\ files[JSON].impls = profiling_data
    /\ BestLine(profiling_data[2]) \in stdout

====
